---------------------------- MODULE Spec2Model ----------------------------
(***************************************************************************)
(* Steganography service: spatial bit-plane (LSB) codec, the brute-force   *)
(* strategy detector and the DCT coefficient-pair codec.                   *)
(*                                                                         *)
(* An image is a record [width, height, mode, pixels]; pixels is the       *)
(* row-major sequence of channel tuples (3 channels for "RGB", 1 for "L"). *)
(* A message is a sequence of Unicode code points; bytes are 0..255.       *)
(*                                                                         *)
(* The size constants of core/stego.py (max_dim = 1000, the 2,100,000      *)
(* pixel decode ceiling, limit = 800000) are scaled down so that bounded   *)
(* images reach them; every formula below is stated in terms of the named  *)
(* constants, never of their values.                                       *)
(***************************************************************************)
EXTENDS Integers, Sequences, FiniteSets, TLC

(* ------------------------------ bounds -------------------------------- *)

\* Longest message, in UTF-8 bytes, the model draws.
MaxMsgBytes == 3

(* ------------------------- program constants -------------------------- *)

\* limit_image_size(img, max_dim=1000), scaled 1000 -> 7.
max_dim == 7

\* decode_image rejects images of more than 2100000 pixels, scaled -> 102
\* (as in the code, more than twice max_dim * max_dim).
MaxDecodePixels == 102

\* decode_image's scan limit (limit = 800000 extracted bits), scaled -> 56
\* (as in the code, less than the capacity of the largest encodable image).
limit == 56

\* b'#####': the delimiter, five bytes 0x23.
delimiter_seq == <<35, 35, 35, 35, 35>>

(* ------------------------------ helpers ------------------------------- *)

Pow2(n) == 2 ^ n

Abs(x) == IF x < 0 THEN -x ELSE x

Max2(a, b) == IF a >= b THEN a ELSE b

\* s ends with t (bytearray.endswith).
EndsWith(s, t) ==
    /\ Len(s) >= Len(t)
    /\ SubSeq(s, Len(s) - Len(t) + 1, Len(s)) = t

\* s[:-5]
DropLast5(s) == SubSeq(s, 1, Len(s) - 5)

(* ------------------------------- UTF-8 -------------------------------- *)

\* str.encode('utf-8') of one code point.
utf8_char(cp) ==
    IF cp < 128 THEN <<cp>>
    ELSE IF cp < 2048 THEN <<192 + (cp \div 64), 128 + (cp % 64)>>
    ELSE IF cp < 65536
         THEN <<224 + (cp \div 4096), 128 + ((cp \div 64) % 64), 128 + (cp % 64)>>
    ELSE <<240 + (cp \div 262144), 128 + ((cp \div 4096) % 64),
           128 + ((cp \div 64) % 64), 128 + (cp % 64)>>

RECURSIVE utf8_encode(_)
utf8_encode(message) ==
    IF message = <<>> THEN <<>>
    ELSE utf8_char(Head(message)) \o utf8_encode(Tail(message))

\* Number of bytes the sequence started by byte b0 must have; 0: b0 starts none.
SeqLen(b0) ==
    IF b0 < 128 THEN 1
    ELSE IF b0 < 194 THEN 0
    ELSE IF b0 < 224 THEN 2
    ELSE IF b0 < 240 THEN 3
    ELSE IF b0 < 245 THEN 4
    ELSE 0

\* Whether b may be the k-th byte (k >= 2) of a sequence started by b0.
ValidCont(b0, k, b) ==
    /\ b >= 128 /\ b < 192
    /\ (k = 2 /\ b0 = 224) => b >= 160
    /\ (k = 2 /\ b0 = 237) => b < 160
    /\ (k = 2 /\ b0 = 240) => b >= 144
    /\ (k = 2 /\ b0 = 244) => b < 144

\* Number of valid continuation bytes that follow position i, at most need - 1.
RECURSIVE ContRun(_, _, _, _)
ContRun(bytes, i, k, need) ==
    IF k > need \/ i + k - 1 > Len(bytes) THEN 0
    ELSE IF ValidCont(bytes[i], k, bytes[i + k - 1])
         THEN 1 + ContRun(bytes, i, k + 1, need)
    ELSE 0

\* The code point of the complete sequence of n bytes at position i.
CodePoint(bytes, i, n) ==
    IF n = 1 THEN bytes[i]
    ELSE IF n = 2 THEN (bytes[i] - 192) * 64 + (bytes[i + 1] - 128)
    ELSE IF n = 3
         THEN (bytes[i] - 224) * 4096 + (bytes[i + 1] - 128) * 64 + (bytes[i + 2] - 128)
    ELSE (bytes[i] - 240) * 262144 + (bytes[i + 1] - 128) * 4096
         + (bytes[i + 2] - 128) * 64 + (bytes[i + 3] - 128)

\* One decoding step at position i: a code point, or an error spanning the
\* longest valid prefix of a sequence (at least the one byte at i).
DecodeAt(bytes, i) ==
    LET need == SeqLen(bytes[i])
        run  == IF need = 0 THEN 0 ELSE ContRun(bytes, i, 2, need)
    IN  IF need > 0 /\ run = need - 1
        THEN [ok |-> TRUE, cp |-> CodePoint(bytes, i, need), len |-> need]
        ELSE [ok |-> FALSE, cp |-> 0, len |-> 1 + run]

\* bytes.decode('utf-8'): does the strict decode succeed?
RECURSIVE utf8_valid(_, _)
utf8_valid(bytes, i) ==
    IF i > Len(bytes) THEN TRUE
    ELSE LET d == DecodeAt(bytes, i)
         IN  d.ok /\ utf8_valid(bytes, i + d.len)

\* bytes.decode('utf-8', errors=...): errors is "ignore" or "replace";
\* on valid input this is the strict decode.
RECURSIVE utf8_decode(_, _, _)
utf8_decode(bytes, i, errors) ==
    IF i > Len(bytes) THEN <<>>
    ELSE LET d == DecodeAt(bytes, i)
             rest == utf8_decode(bytes, i + d.len, errors)
         IN  IF d.ok THEN <<d.cp>> \o rest
             ELSE IF errors = "replace" THEN <<65533>> \o rest
             ELSE rest

(* ---------------------------- bit strings ----------------------------- *)

\* format(b, '08b'): the 8 bits of a byte, most significant first.
ByteBits(b) == [i \in 1..8 |-> (b \div Pow2(8 - i)) % 2]

RECURSIVE BytesToBits(_)
BytesToBits(bytes) ==
    IF bytes = <<>> THEN <<>>
    ELSE ByteBits(Head(bytes)) \o BytesToBits(Tail(bytes))

str_to_bin(message) == BytesToBits(utf8_encode(message))

\* message + "#####"
Framed(message) == message \o delimiter_seq

(* ------------------------------ images -------------------------------- *)

NoImage == [width |-> 0, height |-> 0, mode |-> "none", pixels |-> <<>>]

\* img.convert("RGB") of an "L" or "RGB" image: a new image object.
convert_rgb(img) ==
    IF img.mode = "RGB" THEN img
    ELSE [img EXCEPT !.mode = "RGB",
                     !.pixels = [i \in 1..Len(img.pixels) |->
                                   <<img.pixels[i][1], img.pixels[i][1], img.pixels[i][1]>>]]

\* floor and ceil of num / den.
Floor(num, den) == num \div den
Ceil(num, den) == IF num % den = 0 THEN num \div den ELSE (num \div den) + 1

\* Image.thumbnail's round_aspect: of floor f and ceil c the one whose key is
\* least (the floor on a tie, floor_le), at least 1.
round_aspect(f, c, floor_le) == Max2(IF floor_le THEN f ELSE c, 1)

\* Image.thumbnail((x, y)) size computation (preserve_aspect_ratio), in
\* exact arithmetic: aspect = w / h; the keys are abs(aspect - n / y) for the
\* width and, for the height, 0 if n = 0 else abs(aspect - x / n).
thumbnail_size(w, h, x, y) ==
    IF x >= w /\ y >= h THEN <<w, h>>
    ELSE IF x * h >= w * y
         THEN LET f == Floor(y * w, h)
                  c == Ceil(y * w, h)
              IN  <<round_aspect(f, c, Abs(w * y - f * h) <= Abs(w * y - c * h)), y>>
    ELSE LET f == Floor(x * h, w)
             c == Ceil(x * h, w)
         IN  <<x, round_aspect(f, c,
                     f = 0 \/ Abs(w * f - x * h) * c <= Abs(w * c - x * h) * f)>>

\* The image after img.thumbnail((max_dim, max_dim)): the size above; each
\* new pixel is the source pixel nearest to it (on the single-colour oversized
\* carriers of this model every resampling filter gives that result).
thumbnail(img, x, y) ==
    LET sz == thumbnail_size(img.width, img.height, x, y)
        nw == sz[1]
        nh == sz[2]
    IN  [img EXCEPT !.width = nw, !.height = nh,
                    !.pixels = [i \in 1..(nw * nh) |->
                        LET col == (i - 1) % nw
                            row == (i - 1) \div nw
                        IN  img.pixels[((row * img.height) \div nh) * img.width
                                       + ((col * img.width) \div nw) + 1]]]

\* limit_image_size(img): thumbnail works in place, so the result is also the
\* new value of the caller's image object.
limit_image_size(img) ==
    IF img.width > max_dim \/ img.height > max_dim
    THEN thumbnail(img, max_dim, max_dim)
    ELSE img

(* --------------------------- encode_image ----------------------------- *)

\* Variant: pixel[channel] | (bit_val << bit_pos), the bit is never cleared.
set_bit_no_clear(v, bit_pos, bit_val) ==
    IF (v \div Pow2(bit_pos)) % 2 = 1 THEN v ELSE v + bit_val * Pow2(bit_pos)

\* (pixel[channel] & ~mask) | (bit_val << bit_pos), mask = 1 << bit_pos
set_bit(v, bit_pos, bit_val) ==
    (v - ((v \div Pow2(bit_pos)) % 2) * Pow2(bit_pos)) + bit_val * Pow2(bit_pos)

\* (p[channel] >> bit_pos) & 1
get_bit(v, bit_pos) == (v \div Pow2(bit_pos)) % 2

\* The inner loop, for target in bit_map, from target t on: writes frame bits
\* while data_index < msg_len, breaks otherwise.  Channels are 0-based in the
\* code, tuples 1-based here.
RECURSIVE encode_pixel(_, _, _, _, _)
encode_pixel(pixel, bit_map, t, data_index, binary_data) ==
    IF t > Len(bit_map) \/ data_index >= Len(binary_data)
    THEN [pixel |-> pixel, data_index |-> data_index]
    ELSE LET channel == bit_map[t].c
             bit_pos == bit_map[t].b
             bit_val == binary_data[data_index + 1]
         IN  encode_pixel([pixel EXCEPT ![channel + 1] =
                               set_bit(pixel[channel + 1], bit_pos, bit_val)],
                          bit_map, t + 1, data_index + 1, binary_data)

\* The outer loop, for p in pixel_iter, over pixels lo..hi, started with
\* st = [new_pixels, data_index]; the range is folded by halves.
RECURSIVE encode_pixels(_, _, _, _, _, _)
encode_pixels(pixels, bit_map, lo, hi, st, binary_data) ==
    IF lo > hi THEN st
    ELSE IF lo = hi
         THEN LET r == encode_pixel(pixels[lo], bit_map, 1, st.data_index, binary_data)
              IN  [new_pixels |-> Append(st.new_pixels, r.pixel),
                   data_index |-> r.data_index]
    ELSE LET mid  == (lo + hi) \div 2
             left == encode_pixels(pixels, bit_map, lo, mid, st, binary_data)
         IN  \* the test evaluates the first half before the second is entered
             IF left.data_index >= st.data_index
             THEN encode_pixels(pixels, bit_map, mid + 1, hi, left, binary_data)
             ELSE left

\* Variant: "if len(binary_data) >= capacity".
over_capacity_ge(msg_len, capacity) == msg_len >= capacity

\* if len(binary_data) > capacity: raise StegoError
over_capacity(msg_len, capacity) == msg_len > capacity

\* Variant: Image.new(img.mode, (height, width)).
new_image_swapped(img, new_pixels) ==
    [width |-> img.height, height |-> img.width, mode |-> img.mode,
     pixels |-> new_pixels]

\* new_img = Image.new(img.mode, img.size); new_img.putdata(new_pixels)
new_image(img, new_pixels) ==
    [width |-> img.width, height |-> img.height, mode |-> img.mode,
     pixels |-> new_pixels]

\* encode_image(img, message, bit_map).  kind is "image" or "StegoError";
\* new_img the returned image; obj the caller's image object after the call;
\* pixels the list read at line 38; consumed the final data_index.
encode_image(img, message, bit_map) ==
    LET limited     == limit_image_size(img)
        rgb         == convert_rgb(limited)
        binary_data == str_to_bin(Framed(message))
        pixels      == rgb.pixels
        capacity    == Len(pixels) * Len(bit_map)
        run         == encode_pixels(pixels, bit_map, 1, Len(pixels),
                                     [new_pixels |-> <<>>, data_index |-> 0], binary_data)
    IN  IF over_capacity(Len(binary_data), capacity)
        THEN [kind |-> "StegoError", new_img |-> NoImage, obj |-> limited,
              pixels |-> pixels, capacity |-> capacity,
              msg_len |-> Len(binary_data), consumed |-> 0]
        ELSE [kind |-> "image",
              new_img |-> new_image(rgb, run.new_pixels),
              obj |-> limited, pixels |-> pixels, capacity |-> capacity,
              msg_len |-> Len(binary_data), consumed |-> run.data_index]

(* --------------------------- decode_image ----------------------------- *)

Text(t)   == [kind |-> "text", text |-> t]
NotFound  == [kind |-> "None", text |-> <<>>]
Raised    == [kind |-> "StegoError", text |-> <<>>]

\* extracted_bytes[:-5].decode('utf-8'), on UnicodeDecodeError the same
\* bytes with errors='ignore'.
decode_payload(extracted_bytes) ==
    LET payload == DropLast5(extracted_bytes)
    IN  IF utf8_valid(payload, 1) THEN utf8_decode(payload, 1, "strict")
        ELSE utf8_decode(payload, 1, "ignore")

\* The state of decode_image's loops; returned is set, with the returned
\* value in ret, once a return statement is reached.
ScanStart ==
    [count |-> 0, current_byte |-> 0, bit_in_byte_count |-> 0,
     extracted_bytes |-> <<>>, returned |-> FALSE, ret |-> NotFound]

\* Variant: the bits of a byte are packed least significant first.
decode_step_lsb_first(p, target, st) ==
    LET bit_val == get_bit(p[target.c + 1], target.b)
        byte    == st.current_byte + bit_val * Pow2(st.bit_in_byte_count)
        full    == st.bit_in_byte_count + 1 = 8
        bytes   == IF full THEN Append(st.extracted_bytes, byte) ELSE st.extracted_bytes
    IN  IF full /\ EndsWith(bytes, delimiter_seq)
        THEN [st EXCEPT !.extracted_bytes = bytes, !.returned = TRUE,
                        !.ret = Text(decode_payload(bytes))]
        ELSE [count |-> st.count + 1,
              current_byte |-> IF full THEN 0 ELSE byte,
              bit_in_byte_count |-> IF full THEN 0 ELSE st.bit_in_byte_count + 1,
              extracted_bytes |-> bytes,
              returned |-> st.count + 1 > limit,
              ret |-> NotFound]

\* One pass of the inner loop body for pixel p and target.
decode_step(p, target, st) ==
    LET bit_val == get_bit(p[target.c + 1], target.b)
        byte    == st.current_byte * 2 + bit_val
        full    == st.bit_in_byte_count + 1 = 8
        bytes   == IF full THEN Append(st.extracted_bytes, byte) ELSE st.extracted_bytes
    IN  IF full /\ EndsWith(bytes, delimiter_seq)
        THEN [st EXCEPT !.extracted_bytes = bytes, !.returned = TRUE,
                        !.ret = Text(decode_payload(bytes))]
        ELSE [count |-> st.count + 1,
              current_byte |-> IF full THEN 0 ELSE byte,
              bit_in_byte_count |-> IF full THEN 0 ELSE st.bit_in_byte_count + 1,
              extracted_bytes |-> bytes,
              returned |-> st.count + 1 > limit,
              ret |-> NotFound]

\* The inner loop, for target in bit_map, from target t on.
RECURSIVE decode_pixel(_, _, _, _)
decode_pixel(p, bit_map, t, st) ==
    IF t > Len(bit_map) \/ st.returned THEN st
    ELSE decode_pixel(p, bit_map, t + 1, decode_step(p, bit_map[t], st))

\* The outer loop, for p in pixels, over pixels lo..hi; the range is folded
\* by halves.
RECURSIVE decode_pixels(_, _, _, _, _)
decode_pixels(pixels, bit_map, lo, hi, st) ==
    IF lo > hi \/ st.returned THEN st
    ELSE IF lo = hi THEN decode_pixel(pixels[lo], bit_map, 1, st)
    ELSE LET mid == (lo + hi) \div 2
         IN  decode_pixels(pixels, bit_map, mid + 1, hi,
                           decode_pixels(pixels, bit_map, lo, mid, st))

\* Variant: an exception instead of "return None" when no delimiter is found.
decode_scan_raise(pixels, bit_map) ==
    LET st == decode_pixels(pixels, bit_map, 1, Len(pixels), ScanStart)
    IN  [res |-> IF st.returned /\ st.ret # NotFound THEN st.ret ELSE Raised,
         count |-> st.count,
         exhausted |-> ~st.returned]

\* The loops' outcome: the value returned inside them, else the final None.
decode_scan(pixels, bit_map) ==
    LET st == decode_pixels(pixels, bit_map, 1, Len(pixels), ScanStart)
    IN  [res |-> IF st.returned THEN st.ret ELSE NotFound,
         count |-> st.count,
         exhausted |-> ~st.returned]

decode_image(img, bit_map) ==
    IF img.width * img.height > MaxDecodePixels THEN Raised
    ELSE decode_scan(convert_rgb(img).pixels, bit_map).res

(* ------------------------------ app.py -------------------------------- *)

\* Variant: key=lambda x: x['b'].
KeyLE_b_only(s, t) == s.b <= t.b

\* The sort key of bit_map.sort(key=lambda x: (x['b'], x['c'])).
KeyLE(s, t) == s.b < t.b \/ (s.b = t.b /\ s.c <= t.c)

\* Insert x into the sorted sequence s after every element whose key is not
\* greater (list.sort is stable).
RECURSIVE InsertSorted(_, _)
InsertSorted(s, x) ==
    IF s = <<>> THEN <<x>>
    ELSE IF KeyLE(Head(s), x) THEN <<Head(s)>> \o InsertSorted(Tail(s), x)
    ELSE <<x>> \o s

RECURSIVE SortFrom(_, _, _)
SortFrom(bit_map, i, acc) ==
    IF i > Len(bit_map) THEN acc
    ELSE SortFrom(bit_map, i + 1, InsertSorted(acc, bit_map[i]))

\* bit_map.sort(key=lambda x: (x['b'], x['c']))
sort_bit_map(bit_map) == SortFrom(bit_map, 1, <<>>)

BadRequest(img) ==
    [kind |-> "BadRequest", new_img |-> NoImage, obj |-> img, pixels |-> <<>>,
     capacity |-> 0, msg_len |-> 0, consumed |-> 0]

\* handle_encode: 400 on an empty message, else sort the bit-map and call
\* encode_image; the PNG sent back holds the returned image unchanged.
handle_encode(img, message, bit_map) ==
    IF message = <<>> THEN BadRequest(img)
    ELSE encode_image(img, message, sort_bit_map(bit_map))

T(c, b) == [c |-> c, b |-> b]

\* handle_auto_decode's suspects, in list order (names by index: 1 is the
\* all-channels bit-0 preset "標準 LSB (RGB Bit 0)").
suspects ==
    << <<T(0, 0), T(1, 0), T(2, 0)>>,
       <<T(0, 0)>>,
       <<T(1, 0)>>,
       <<T(2, 0)>>,
       <<T(1, 0), T(2, 0)>> >>

\* Python truthiness of decode_image's result in "if msg:".
Truthy(msg) == msg.kind = "text" /\ msg.text # <<>>

AutoFound(k, msg) == [kind |-> "found", strategy |-> k, message |-> msg.text]
AutoFailed == [kind |-> "failed", strategy |-> 0, message |-> <<>>]
AutoError  == [kind |-> "error", strategy |-> 0, message |-> <<>>]

\* The loop over suspects from index k on; an exception of decode_image
\* leaves the loop for the handler's except clause.
RECURSIVE auto_loop(_, _)
auto_loop(img, k) ==
    IF k > Len(suspects) THEN AutoFailed
    ELSE LET msg == decode_image(img, sort_bit_map(suspects[k]))
         IN  IF msg.kind = "StegoError" THEN AutoError
             ELSE IF Truthy(msg) THEN AutoFound(k, msg)
             ELSE auto_loop(img, k + 1)

\* Variant: the loop starts at the second suspect.
handle_auto_decode_skip_first(img) == auto_loop(img, 2)

handle_auto_decode(img) == auto_loop(img, 1)

(* ----------------------------- core/dct.py ---------------------------- *)

(***************************************************************************)
(* A DCT image is [h, w, grid]: the pixel height and width, and for each   *)
(* 8x8 luma block (grid[r][c], rows and columns of range(0, h-7, 8) and    *)
(* range(0, w-7, 8)) the two coefficients the codec reads, p1 =            *)
(* dct_block[4, 1] and p2 = dct_block[3, 2], as cv2.dct computes them.     *)
(* Coefficients are integers here.                                         *)
(***************************************************************************)

\* k = 50
K == 50

\* len(range(0, n - 7, 8))
RangeLen(n) == IF n - 7 <= 0 THEN 0 ELSE (n - 7 + 7) \div 8

\* bin_to_str: whole 8-bit chunks to bytes (a shorter last chunk is dropped),
\* then one decode with errors='replace'.
bin_to_str(binary_data) ==
    LET byte_data == [j \in 1..(Len(binary_data) \div 8) |->
                        binary_data[8 * j - 7] * 128 + binary_data[8 * j - 6] * 64
                        + binary_data[8 * j - 5] * 32 + binary_data[8 * j - 4] * 16
                        + binary_data[8 * j - 3] * 8 + binary_data[8 * j - 2] * 4
                        + binary_data[8 * j - 1] * 2 + binary_data[8 * j]]
    IN  utf8_decode(byte_data, 1, "replace")

\* Variant: "p1 = p2 + k" and "p2 = p1 + k", one short of the margin.
embed_pair_short(p1, p2, bit) ==
    IF bit = 0
    THEN [p1 |-> IF p1 <= p2 + K THEN p2 + K ELSE p1, p2 |-> p2]
    ELSE [p1 |-> p1, p2 |-> IF p2 <= p1 + K THEN p1 + K ELSE p2]

\* Lines 125-132: the coefficient pair after the margin rule for one bit.
embed_pair(p1, p2, bit) ==
    IF bit = 0
    THEN [p1 |-> IF p1 <= p2 + K THEN p2 + K + 1 ELSE p1, p2 |-> p2]
    ELSE [p1 |-> p1, p2 |-> IF p2 <= p1 + K THEN p1 + K + 1 ELSE p2]

\* The inner loop, for col in range(0, w - 7, 8), from column c on; breaks
\* when data_index >= msg_len.  st = [grid, data_index, written]: written
\* lists the blocks written back, in the order they were.
RECURSIVE embed_row(_, _, _, _, _)
embed_row(st, r, c, ncols, binary_data) ==
    IF c > ncols \/ st.data_index >= Len(binary_data) THEN st
    ELSE LET bit  == binary_data[st.data_index + 1]
             pair == embed_pair(st.grid[r][c].p1, st.grid[r][c].p2, bit)
         IN  embed_row([grid |-> [st.grid EXCEPT ![r][c] = pair],
                        data_index |-> st.data_index + 1,
                        written |-> Append(st.written, <<r, c>>)],
                       r, c + 1, ncols, binary_data)

\* The outer loop, for row in range(0, h - 7, 8), from row r on.
RECURSIVE embed_rows(_, _, _, _, _)
embed_rows(st, r, nrows, ncols, binary_data) ==
    IF r > nrows THEN st
    ELSE embed_rows(embed_row(st, r, 1, ncols, binary_data),
                    r + 1, nrows, ncols, binary_data)

\* Lines 142-149 and a later cv2.dct of the saved image: clipping to 0..255,
\* truncation to uint8 and the YCrCb -> RGB -> YCrCb conversions move the
\* coefficients a reader recomputes away from the ones written.  noise names
\* one block (r, c; r = 0 for none) and the shift of its pair.
saved_grid(grid, noise) ==
    IF noise.r = 0 \/ noise.r > Len(grid) THEN grid
    ELSE IF noise.c > Len(grid[noise.r]) THEN grid
    ELSE [grid EXCEPT ![noise.r][noise.c] =
              [p1 |-> @.p1 + noise.d1, p2 |-> @.p2 + noise.d2]]

NoDctImage == [h |-> 0, w |-> 0, grid |-> <<>>]

\* embed_dct(img_pil, message).  kind is "image" or "DCTError"; grid the
\* coefficients as written back; new_img the image a reader gets.
embed_dct(img, message, noise) ==
    LET max_bits    == (img.h \div 8) * (img.w \div 8)
        binary_data == str_to_bin(Framed(message))
        run         == embed_rows([grid |-> img.grid, data_index |-> 0, written |-> <<>>],
                                  1, RangeLen(img.h), RangeLen(img.w), binary_data)
    IN  IF Len(binary_data) > max_bits
        THEN [kind |-> "DCTError", max_bits |-> max_bits, msg_len |-> Len(binary_data),
              grid |-> img.grid, written |-> <<>>, new_img |-> NoDctImage]
        ELSE [kind |-> "image", max_bits |-> max_bits, msg_len |-> Len(binary_data),
              grid |-> run.grid, written |-> run.written,
              new_img |-> [h |-> img.h, w |-> img.w,
                           grid |-> saved_grid(run.grid, noise)]]

\* Variant: "if p1 < p2" emits "0".
block_bit_flipped(block) == IF block.p1 < block.p2 THEN 0 ELSE 1

\* Lines 61-64: "0" if p1 > p2 else "1".
block_bit(block) == IF block.p1 > block.p2 THEN 0 ELSE 1

\* The two loops of extract_dct over the whole grid: one bit per block, rows
\* then columns.
RECURSIVE extract_bits(_, _)
extract_bits(grid, r) ==
    IF r > Len(grid) THEN <<>>
    ELSE [c \in 1..Len(grid[r]) |-> block_bit(grid[r][c])] \o extract_bits(grid, r + 1)

\* The least i with s[i .. i+4] = "#####", or 0: where str.split cuts first.
RECURSIVE find_delimiter(_, _)
find_delimiter(full_text, i) ==
    IF i + 4 > Len(full_text) THEN 0
    ELSE IF SubSeq(full_text, i, i + 4) = delimiter_seq THEN i
    ELSE find_delimiter(full_text, i + 1)

\* extract_dct(img_pil): the text before the first delimiter, else the
\* diagnostic carrying full_text[:20].
extract_dct(img) ==
    LET extracted_bits == extract_bits(img.grid, 1)
        full_text      == bin_to_str(extracted_bits)
        at             == find_delimiter(full_text, 1)
    IN  IF at > 0
        THEN [kind |-> "text", text |-> SubSeq(full_text, 1, at - 1)]
        ELSE [kind |-> "preview",
              text |-> SubSeq(full_text, 1, IF Len(full_text) < 20 THEN Len(full_text) ELSE 20)]

(* ------------------------------ inputs -------------------------------- *)

\* "", "H", "#", "é", "Hi", "H#", "#H", "中", "Hé", "Hi!", "H中", "Hi#!"
MessagePool ==
    { <<>>, <<72>>, <<35>>, <<233>>, <<72, 105>>, <<72, 35>>, <<35, 72>>,
      <<20013>>, <<72, 233>>, <<72, 105, 33>>, <<72, 20013>>, <<72, 105, 35, 33>> }

ByteLen(message) == Len(utf8_encode(message))

Messages == {m \in MessagePool : ByteLen(m) <= MaxMsgBytes}

White(i) == <<255, 255, 255>>
Mixed(i) == <<(37 * i + 11) % 256, (101 * i + 7) % 256, (211 * i + 90) % 256>>
Grey(i)  == <<200>>

\* Pixel i of the pattern named pat.
PatternPixel(pat, i) ==
    CASE pat = "White" -> White(i)
      [] pat = "Mixed" -> Mixed(i)
      [] pat = "Grey"  -> Grey(i)

Picture(w, h, mode, pat) ==
    [width |-> w, height |-> h, mode |-> mode,
     pixels |-> [i \in 1..(w * h) |-> PatternPixel(pat, i)]]

\* A file made by two successive encodes: "H" in the red bit 0 plane, then
\* "i" in the green bit 0 plane.
DoubleStego ==
    encode_image(encode_image(Picture(7, 7, "RGB", "Mixed"), <<72>>, <<T(0, 0)>>).new_img,
                 <<105>>, <<T(1, 0)>>).new_img

\* The image files a caller uploads: within max_dim, wider than max_dim, and
\* larger than the decode ceiling.
Uploads ==
    { Picture(4, 4, "RGB", "White"), Picture(4, 4, "RGB", "Mixed"),
      Picture(3, 7, "RGB", "White"), Picture(3, 7, "RGB", "Mixed"),
      Picture(5, 4, "RGB", "White"), Picture(5, 4, "RGB", "Mixed"),
      Picture(7, 7, "RGB", "White"), Picture(7, 7, "RGB", "Mixed"),
      Picture(4, 4, "L", "Grey"),
      Picture(8, 4, "RGB", "White"),
      Picture(8, 13, "RGB", "White"),
      DoubleStego }

\* Bit-maps as callers supply them: sorted and unsorted, with a repeated
\* target, and empty.
BitMaps ==
    { <<T(0, 0), T(1, 0), T(2, 0)>>,
      <<T(2, 0), T(0, 0), T(1, 0)>>,
      <<T(0, 0)>>,
      <<T(1, 0), T(2, 0)>>,
      <<T(0, 1), T(2, 0)>>,
      <<T(0, 0), T(0, 0)>>,
      <<>> }

\* One more bound: the longest message, in UTF-8 bytes, given to embed_dct.
MaxDctMsgBytes == 2

DctMessages == {m \in MessagePool : ByteLen(m) <= MaxDctMsgBytes}

Pair(a, b) == [p1 |-> a, p2 |-> b]

\* Coefficient pairs of carriers: a flat image, a textured one, and one whose
\* pairs sit on and around the margin K.
Flat(i)    == Pair(0, 0)
Texture(i) == Pair(((37 * i) % 201) - 100, ((53 * i + 20) % 201) - 100)
Margins(i) ==
    << Pair(K, 0), Pair(K + 1, 0), Pair(0, K), Pair(0, K + 1),
       Pair(-(K + 1), 0), Pair(0, 0), Pair(K + 10, 0), Pair(0, K + 10) >>[(i % 8) + 1]

\* Pair i of the pattern named pat.
PatternPair(pat, i) ==
    CASE pat = "Flat"    -> Flat(i)
      [] pat = "Texture" -> Texture(i)
      [] pat = "Margins" -> Margins(i)

DctPicture(h, w, pat) ==
    [h |-> h, w |-> w,
     grid |-> [r \in 1..RangeLen(h) |->
                 [c \in 1..RangeLen(w) |-> PatternPair(pat, (r - 1) * RangeLen(w) + c)]]]

\* 5 x 8, 6 x 8 and 7 x 9 blocks.
DctSizes == { <<47, 71>>, <<48, 64>>, <<56, 79>> }

DctCarriers ==
    UNION { { DctPicture(sz[1], sz[2], "Flat"), DctPicture(sz[1], sz[2], "Texture"),
              DctPicture(sz[1], sz[2], "Margins") } : sz \in DctSizes }

NoNoise == [r |-> 0, c |-> 0, d1 |-> 0, d2 |-> 0]

\* What saving and re-reading does to the coefficients: nothing, or a shift
\* of one block's pair (small, or larger than the margin).
Noises ==
    {NoNoise} \cup
    { [r |-> rc[1], c |-> rc[2], d1 |-> d[1], d2 |-> d[2]] :
        rc \in { <<1, 1>>, <<3, 4>>, <<6, 1>> },
        d  \in { <<-(K + 10), 0>>, <<0, -(K + 10)>>, <<5, -5>> } }

(* ------------------------------- state -------------------------------- *)

VARIABLES
    upload,   \* the image file the caller holds
    enc,      \* the last encode call: its arguments and its result
    dec,      \* the last decode or auto-decode call on upload or on the stego image
    dimg,     \* the image given to the DCT codec
    demb,     \* the last embed_dct call: its arguments and its result
    dext      \* the last extract_dct call

lsbvars == <<upload, enc, dec>>
dctvars == <<dimg, demb, dext>>
vars == <<upload, enc, dec, dimg, demb, dext>>

NoEmb ==
    [called |-> FALSE, message |-> <<>>, noise |-> NoNoise,
     res |-> [kind |-> "none", max_bits |-> 0, msg_len |-> 0, grid |-> <<>>,
              written |-> <<>>, new_img |-> NoDctImage]]

NoExt == [called |-> FALSE, src |-> "none", res |-> [kind |-> "none", text |-> <<>>]]

NoEnc ==
    [via |-> "none", message |-> <<>>, supplied |-> <<>>, bit_map |-> <<>>,
     res |-> [kind |-> "none", new_img |-> NoImage, obj |-> NoImage, pixels |-> <<>>,
              capacity |-> 0, msg_len |-> 0, consumed |-> 0]]

NoDec ==
    [op |-> "none", src |-> "none", bit_map |-> <<>>, res |-> NotFound,
     auto |-> AutoFailed]

Init ==
    /\ upload \in Uploads
    /\ enc = NoEnc
    /\ dec = NoDec
    /\ dimg = NoDctImage
    /\ demb = NoEmb
    /\ dext = NoExt

\* The image a decode request carries.
Source(src) == IF src = "stego" THEN enc.res.new_img ELSE upload

HasSource(src) == src = "stego" => enc.res.kind = "image"

\* No state is kept between requests, so a behaviour is one session: an
\* upload, at most one encode of it, and one decode of the upload or of the
\* encode's output.
CanEncode == enc = NoEnc /\ dec = NoDec

CanDecode(src) == dec = NoDec /\ HasSource(src)

\* A direct call encode_image(upload, message, bit_map).
EncodeImage(message, bit_map) ==
    /\ CanEncode
    /\ enc' = [via |-> "encode_image", message |-> message, supplied |-> bit_map,
               bit_map |-> bit_map, res |-> encode_image(upload, message, bit_map)]
    /\ dec' = NoDec
    /\ UNCHANGED <<upload, dctvars>>

\* POST /encode
HandleEncode(message, bit_map) ==
    /\ CanEncode
    /\ enc' = [via |-> "handle_encode", message |-> message, supplied |-> bit_map,
               bit_map |-> sort_bit_map(bit_map),
               res |-> handle_encode(upload, message, bit_map)]
    /\ dec' = NoDec
    /\ UNCHANGED <<upload, dctvars>>

\* A direct call decode_image(img, bit_map).
DecodeImage(src, bit_map) ==
    /\ CanDecode(src)
    /\ dec' = [op |-> "decode_image", src |-> src, bit_map |-> bit_map,
               res |-> decode_image(Source(src), bit_map), auto |-> AutoFailed]
    /\ UNCHANGED <<upload, enc, dctvars>>

\* POST /auto_decode
HandleAutoDecode(src) ==
    /\ CanDecode(src)
    /\ dec' = [op |-> "handle_auto_decode", src |-> src, bit_map |-> <<>>,
               res |-> NotFound, auto |-> handle_auto_decode(Source(src))]
    /\ UNCHANGED <<upload, enc, dctvars>>

Next ==
    \/ \E m \in Messages, B \in BitMaps : EncodeImage(m, B)
    \/ \E m \in Messages, B \in BitMaps : HandleEncode(m, B)
    \/ \E src \in {"upload", "stego"}, B \in BitMaps : DecodeImage(src, B)
    \/ \E src \in {"upload", "stego"} : HandleAutoDecode(src)

Spec == Init /\ [][Next]_vars

(* --------------------------- the DCT session -------------------------- *)

InitDct ==
    /\ upload = NoImage
    /\ enc = NoEnc
    /\ dec = NoDec
    /\ dimg \in DctCarriers
    /\ demb = NoEmb
    /\ dext = NoExt

DctSource(src) == IF src = "stego" THEN demb.res.new_img ELSE dimg

\* A call embed_dct(dimg, message); noise is what saving the result and
\* reading it back will do to the coefficients.
EmbedDct(message, noise) ==
    /\ ~demb.called /\ ~dext.called
    /\ demb' = [called |-> TRUE, message |-> message, noise |-> noise,
                res |-> embed_dct(dimg, message, noise)]
    /\ UNCHANGED <<lsbvars, dimg, dext>>

\* A call extract_dct(img) on the carrier or on the embed's output.
ExtractDct(src) ==
    /\ ~dext.called
    /\ src = "stego" => demb.res.kind = "image"
    /\ dext' = [called |-> TRUE, src |-> src, res |-> extract_dct(DctSource(src))]
    /\ UNCHANGED <<lsbvars, dimg, demb>>

NextDct ==
    \/ \E m \in DctMessages, noise \in Noises : EmbedDct(m, noise)
    \/ \E src \in {"carrier", "stego"} : ExtractDct(src)

SpecDct == InitDct /\ [][NextDct]_vars

(* ------------------------ vocabulary of the claims -------------------- *)

\* Targets sorted ascending by (bitPosition, channel).
Canonical(bit_map) ==
    \A i, j \in 1..Len(bit_map) : i < j => KeyLE(bit_map[i], bit_map[j])

\* No target occurs twice.
Distinct(bit_map) ==
    \A i, j \in 1..Len(bit_map) : i # j => bit_map[i] # bit_map[j]

\* channel in {0,1,2}, bitPosition in 0..7.
ValidBitMap(bit_map) ==
    \A i \in 1..Len(bit_map) : bit_map[i].c \in 0..2 /\ bit_map[i].b \in 0..7

\* 8 * (byteLength(M) + 5)
FrameBits(message) == 8 * (ByteLen(message) + 5)

\* The message neither ends with '#' nor contains "#####": the first
\* delimiter of message + "#####" is the appended one.
DelimiterSafe(message) ==
    /\ message # <<>> => message[Len(message)] # 35
    /\ \A i \in 1..(Len(message) - 4) : SubSeq(message, i, i + 4) # delimiter_seq

\* Width and height both within max_dim: limit_image_size does not resize.
WithinMaxDim(img) == img.width <= max_dim /\ img.height <= max_dim

\* All orderings of a sequence.
Orderings(s) ==
    LET n == Len(s)
    IN  { [i \in 1..n |-> s[f[i]]] :
            f \in {g \in [1..n -> 1..n] : \A a, b \in 1..n : a # b => g[a] # g[b]} }

\* The k-th bit (k >= 0) of the scan-order stream that bit_map selects.
StreamBit(pixels, bit_map, k) ==
    LET t == bit_map[(k % Len(bit_map)) + 1]
    IN  (pixels[(k \div Len(bit_map)) + 1][t.c + 1] \div Pow2(t.b)) % 2

\* Whether bytes j-4 .. j of that stream (bytes counted from 1) are all '#'.
DelimiterAt(pixels, bit_map, j) ==
    \A i \in (j - 4)..j : \A q \in 0..7 :
        StreamBit(pixels, bit_map, 8 * (i - 1) + q) = ByteBits(35)[q + 1]

\* A byte-aligned delimiter ends within the first limit bits of the stream.
DelimiterInReach(pixels, bit_map) ==
    /\ bit_map # <<>>
    /\ \E j \in 5..(limit \div 8) :
          /\ 8 * j <= Len(pixels) * Len(bit_map)
          /\ DelimiterAt(pixels, bit_map, j)

EncodedDirect == enc.via = "encode_image"
Encoded       == enc.res.kind = "image"
\* The state an encode call returns to (no decode request made yet).
EncodeReturned == enc.via # "none" /\ dec.op = "none"
DecodedStego  == dec.op = "decode_image" /\ dec.src = "stego"

(* ------------------------------ claims -------------------------------- *)

\* C1 as stated: for every message M, carrier and canonical bit-map B with
\* pixelCount * |B| >= 8 * (byteLength(M) + 5),
\* decode_image(encode_image(img, M, B), B) returns exactly M.
C1_RoundTrip_AsStated ==
    ( /\ EncodedDirect /\ Encoded /\ DecodedStego
      /\ dec.bit_map = enc.bit_map
      /\ Canonical(enc.bit_map)
      /\ Len(enc.res.pixels) * Len(enc.bit_map) >= FrameBits(enc.message) )
    => dec.res = Text(enc.message)

\* C1 amended: the round trip returns exactly M when, in addition, M neither
\* ends with '#' nor contains "#####", B names no target twice, and the frame
\* is at most limit bits long.
C1_RoundTrip ==
    ( /\ EncodedDirect /\ Encoded /\ DecodedStego
      /\ dec.bit_map = enc.bit_map
      /\ Canonical(enc.bit_map) /\ Distinct(enc.bit_map)
      /\ Len(enc.res.pixels) * Len(enc.bit_map) >= FrameBits(enc.message)
      /\ DelimiterSafe(enc.message)
      /\ FrameBits(enc.message) <= limit )
    => dec.res = Text(enc.message)

\* A two-byte message with a multi-byte character came back unchanged.
C1_Witness ==
    /\ EncodedDirect /\ Encoded /\ DecodedStego
    /\ dec.bit_map = enc.bit_map
    /\ Canonical(enc.bit_map) /\ Distinct(enc.bit_map)
    /\ enc.message = <<233>>
    /\ FrameBits(enc.message) = limit
    /\ dec.res = Text(enc.message)

\* C2 as stated: encode_image succeeds when the frame length equals
\* pixelCount * |bitmap|; when the frame is longer it fails with StegoError and
\* the caller's carrier image is the same as before the call.
C2_CapacityBoundary_AsStated ==
    (EncodeReturned /\ enc.res.kind \in {"image", "StegoError"}) =>
        LET n   == FrameBits(enc.message)
            cap == upload.width * upload.height * Len(enc.bit_map)
        IN  /\ n <= cap => enc.res.kind = "image"
            /\ n > cap => enc.res.kind = "StegoError" /\ enc.res.obj = upload

\* C2 amended: capacity is pixelCount * |bitmap| of the carrier after
\* limit_image_size; encode_image succeeds iff the frame length is at most
\* that; on the capacity error a carrier within max_dim x max_dim is the same
\* as before the call, while a larger one has been shrunk in place.
C2_CapacityBoundary ==
    (EncodeReturned /\ enc.res.kind \in {"image", "StegoError"}) =>
        LET n   == FrameBits(enc.message)
            cap == Len(enc.res.pixels) * Len(enc.bit_map)
        IN  /\ WithinMaxDim(upload) =>
                  Len(enc.res.pixels) = upload.width * upload.height
            /\ n <= cap => enc.res.kind = "image"
            /\ n > cap => enc.res.kind = "StegoError"
            /\ WithinMaxDim(upload) => enc.res.obj = upload
            /\ ~WithinMaxDim(upload) =>
                  /\ WithinMaxDim(enc.res.obj)
                  /\ enc.res.obj # upload

\* A frame one bit longer than the capacity was refused, carrier untouched.
C2_Witness ==
    /\ EncodeReturned
    /\ enc.res.kind = "StegoError"
    /\ WithinMaxDim(upload)
    /\ FrameBits(enc.message) = upload.width * upload.height * Len(enc.bit_map) + 1
    /\ enc.res.obj = upload

\* C3: POST /encode with bit-map B and with any permutation of B returns
\* pixel-identical images (the handler sorts the bit-map before encoding).
C3_CanonicalizationInvariance ==
    (EncodeReturned /\ enc.via = "handle_encode") =>
        \A P \in Orderings(enc.supplied) :
            LET other == handle_encode(upload, enc.message, P)
            IN  other.kind = enc.res.kind /\ other.new_img = enc.res.new_img

\* An unsorted bit-map was supplied, and encoding in the supplied order would
\* have given another image.
C3_Witness ==
    /\ EncodeReturned
    /\ enc.via = "handle_encode" /\ Encoded
    /\ ~Canonical(enc.supplied)
    /\ encode_image(upload, enc.message, enc.supplied).new_img # enc.res.new_img

FromPresetOne ==
    /\ Encoded
    /\ enc.bit_map = suspects[1]
    /\ dec.op = "handle_auto_decode" /\ dec.src = "stego"

DecodedPixels == convert_rgb(Source(dec.src)).pixels

\* C5 as stated: for every carrier image and valid bit-map, when no
\* byte-aligned delimiter is matched before the scan limit or the end of the
\* pixel buffer, decode_image returns None and raises no exception.
C5_NotFound_AsStated ==
    ( /\ dec.op = "decode_image"
      /\ ValidBitMap(dec.bit_map)
      /\ ~DelimiterInReach(DecodedPixels, dec.bit_map) )
    => dec.res = NotFound

\* C5 amended: the same for every carrier image of at most MaxDecodePixels
\* pixels; a larger one makes decode_image raise StegoError.
C5_NotFound ==
    ( /\ dec.op = "decode_image"
      /\ ValidBitMap(dec.bit_map)
      /\ ~DelimiterInReach(DecodedPixels, dec.bit_map) )
    => IF Source(dec.src).width * Source(dec.src).height <= MaxDecodePixels
       THEN dec.res = NotFound
       ELSE dec.res = Raised

\* The scan limit was reached before the end of the buffer, with no match.
C5_Witness ==
    /\ dec.op = "decode_image"
    /\ dec.bit_map # <<>>
    /\ Len(DecodedPixels) * Len(dec.bit_map) > limit + 1
    /\ Len(DecodedPixels) <= MaxDecodePixels
    /\ ~DelimiterInReach(DecodedPixels, dec.bit_map)
    /\ dec.res = NotFound

\* C6 as stated: whenever encode_image succeeds the returned image has the
\* width, height and channel depth of the input image.
C6_Dimensions_AsStated ==
    (EncodeReturned /\ Encoded) =>
        /\ enc.res.new_img.width = upload.width
        /\ enc.res.new_img.height = upload.height
        /\ enc.res.new_img.mode = upload.mode

\* C6 amended: the returned image is RGB; it has the width and height of the
\* input when both are at most max_dim, and otherwise fits max_dim x max_dim;
\* it has the input's channel depth when the input is RGB.
C6_Dimensions ==
    (EncodeReturned /\ Encoded) =>
        /\ enc.res.new_img.mode = "RGB"
        /\ Len(enc.res.new_img.pixels) = enc.res.new_img.width * enc.res.new_img.height
        /\ WithinMaxDim(enc.res.new_img)
        /\ WithinMaxDim(upload) =>
              /\ enc.res.new_img.width = upload.width
              /\ enc.res.new_img.height = upload.height

\* A non-square RGB carrier within max_dim was encoded into: pixels changed,
\* size kept.
C6_Witness ==
    /\ EncodeReturned /\ Encoded
    /\ upload.mode = "RGB" /\ WithinMaxDim(upload)
    /\ upload.width # upload.height
    /\ enc.res.new_img.pixels # upload.pixels
    /\ enc.res.new_img.width = upload.width
    /\ enc.res.new_img.height = upload.height

\* decode_image's result for suspect k on the image of the auto-decode call.
SuspectResult(k) == decode_image(Source(dec.src), suspects[k])

\* C8: the presets are tried in list order and the answer is the pair of the
\* first preset whose decode_image result is not None, whatever the decoded
\* message (the empty one included); failure only if every result is None.
C8_FirstNotNone ==
    ( /\ dec.op = "handle_auto_decode"
      /\ \A k \in 1..Len(suspects) : SuspectResult(k).kind # "StegoError" )
    => IF \E k \in 1..Len(suspects) : SuspectResult(k) # NotFound
       THEN LET first == CHOOSE k \in 1..Len(suspects) :
                            /\ SuspectResult(k) # NotFound
                            /\ \A q \in 1..(k - 1) : SuspectResult(q) = NotFound
            IN  dec.auto = AutoFound(first, SuspectResult(first))
       ELSE dec.auto = AutoFailed

\* The slot (pixel index from 0, target) frame bit j goes to.
SlotPixel(j) == j \div Len(enc.bit_map)
SlotTarget(j) == enc.bit_map[(j % Len(enc.bit_map)) + 1]

\* The frame lands where C9 says: bit j in pixel floor(j / |B|) at target
\* B[j mod |B|]; all other channel bits as in the input; n bits consumed.
FrameEffect ==
    LET n      == enc.res.msg_len
        frame  == str_to_bin(Framed(enc.message))
        before == enc.res.pixels
        after  == enc.res.new_img.pixels
        slots  == {<<SlotPixel(j), SlotTarget(j)>> : j \in 0..(n - 1)}
        Addressed(i, c, b) == <<i - 1, T(c, b)>> \in slots
    IN  /\ enc.res.consumed = n
        /\ Len(after) = Len(before)
        /\ \A j \in 0..(n - 1) :
              LET t == SlotTarget(j)
              IN  (after[SlotPixel(j) + 1][t.c + 1] \div Pow2(t.b)) % 2 = frame[j + 1]
        /\ \A i \in 1..Len(before) : \A c \in 0..2 : \A b \in 0..7 :
              ~Addressed(i, c, b) =>
                  (after[i][c + 1] \div Pow2(b)) % 2 = (before[i][c + 1] \div Pow2(b)) % 2
        /\ \A i \in 1..Len(before) :
              (i - 1) * Len(enc.bit_map) >= n => after[i] = before[i]

\* C9 as stated: the frame effect holds for every successful encode_image.
C9_FrameEffect_AsStated == (EncodeReturned /\ Encoded) => FrameEffect

\* C9 amended: the frame effect holds for every successful encode_image whose
\* bit-map names no target twice.
C9_FrameEffect ==
    (EncodeReturned /\ Encoded /\ Distinct(enc.bit_map)) => FrameEffect

\* The frame ended inside a pixel, with untouched pixels after it.
C9_Witness ==
    /\ EncodeReturned /\ Encoded /\ Distinct(enc.bit_map)
    /\ Len(enc.bit_map) = 3
    /\ enc.res.msg_len % 3 # 0
    /\ Len(enc.res.pixels) * 3 > enc.res.msg_len + 3
    /\ enc.res.new_img.pixels # enc.res.pixels
    /\ FrameEffect

\* embed_dct returned an image.
Embedded == demb.res.kind = "image"

\* In every block embed_dct wrote, the saved image orders P1 and P2 as written.
OrderPreserved ==
    \A j \in 1..Len(demb.res.written) :
        LET r == demb.res.written[j][1]
            c == demb.res.written[j][2]
        IN  (demb.res.new_img.grid[r][c].p1 > demb.res.new_img.grid[r][c].p2)
            <=> (demb.res.grid[r][c].p1 > demb.res.grid[r][c].p2)

ExtractedStego == dext.called /\ dext.src = "stego"

RasterBlock(j) ==
    <<((j - 1) \div RangeLen(dimg.w)) + 1, ((j - 1) % RangeLen(dimg.w)) + 1>>

\* C10: a successful embed_dct with frame length n writes exactly the first
\* n blocks in raster order; in each, P1 > P2 + K for frame bit 0 and
\* P2 > P1 + K for frame bit 1, at most one of P1, P2 differs from the
\* carrier's, none when the margin already held; blocks from n on keep the
\* carrier's coefficients.
C10_MarginMinimalChange ==
    Embedded =>
        LET n     == demb.res.msg_len
            frame == str_to_bin(Framed(demb.message))
            total == RangeLen(dimg.h) * RangeLen(dimg.w)
        IN  /\ demb.res.written = [j \in 1..n |-> RasterBlock(j)]
            /\ \A j \in 1..n :
                  LET a == dimg.grid[RasterBlock(j)[1]][RasterBlock(j)[2]]
                      b == demb.res.grid[RasterBlock(j)[1]][RasterBlock(j)[2]]
                  IN  /\ frame[j] = 0 => b.p1 > b.p2 + K
                      /\ frame[j] = 1 => b.p2 > b.p1 + K
                      /\ a.p1 = b.p1 \/ a.p2 = b.p2
                      /\ (frame[j] = 0 /\ a.p1 > a.p2 + K) => b = a
                      /\ (frame[j] = 1 /\ a.p2 > a.p1 + K) => b = a
            /\ \A j \in (n + 1)..total :
                  demb.res.grid[RasterBlock(j)[1]][RasterBlock(j)[2]]
                      = dimg.grid[RasterBlock(j)[1]][RasterBlock(j)[2]]

\* A frame that ends inside a row of blocks: some written blocks changed, one
\* that already held the margin did not, and blocks remain after the frame.
C10_Witness ==
    /\ Embedded
    /\ demb.res.msg_len % RangeLen(dimg.w) # 0
    /\ demb.res.msg_len < demb.res.max_bits
    /\ demb.res.grid # dimg.grid
    /\ \E j \in 1..demb.res.msg_len :
          LET a == dimg.grid[RasterBlock(j)[1]][RasterBlock(j)[2]]
          IN  /\ a.p1 # a.p2
              /\ demb.res.grid[RasterBlock(j)[1]][RasterBlock(j)[2]] = a

=============================================================================
